---- MODULE Spec2Model ----
(***************************************************************************)
(* A model of facebook/facebook.py: the cookie signature verifier          *)
(* get_user_from_cookie and the Graph API client GraphAPI (request and the *)
(* public operations built on it).                                         *)
(*                                                                         *)
(* Every public operation is synchronous, so each is one action: the       *)
(* caller's arguments and the answers of the remote service are drawn with *)
(* \E, and the state keeps the last call, the HTTP exchanges it made and   *)
(* its outcome.                                                            *)
(***************************************************************************)
EXTENDS Integers, Sequences, FiniteSets, TLC

VARIABLES
    access_token,   \* GraphAPI.access_token, fixed at construction
    call,           \* the last public call and its arguments
    netlog,         \* the HTTP exchanges of the last call, in order
    outcome         \* what the last call returned or raised

vars == <<access_token, call, netlog, outcome>>

(***************************************************************************)
(* Bounds of the model.                                                    *)
(***************************************************************************)
MaxFields == 3      \* key=value fields of a cookie besides the sig fields
MaxTime == 3        \* time.time() ranges over 0..MaxTime

(***************************************************************************)
(* Python values.  None and a present value are told apart by a tag.       *)
(***************************************************************************)
None == [none |-> TRUE]
Some(v) == [none |-> FALSE, v |-> v]

\* the empty dict with string keys
EmptyDict == [k \in {} |-> ""]

(***************************************************************************)
(* Text of the cookie: a str is a sequence of characters.  AsciiOrder      *)
(* lists the characters the model uses in the order of their code points,  *)
(* which is the order sorted() compares str by.                            *)
(***************************************************************************)
AsciiOrder ==
    <<" ", "+", "0", "1", "2", "3", "4", "5", "6", "7", "8", "9", "=",
      "a", "b", "c", "d", "e", "f", "g", "i", "p", "r", "s", "x">>

Ord(c) == CHOOSE i \in 1..Len(AsciiOrder) : AsciiOrder[i] = c

\* s < t for two str, as Python compares them
RECURSIVE StrLess(_, _)
StrLess(s, t) ==
    IF t = <<>> THEN FALSE
    ELSE IF s = <<>> THEN TRUE
    ELSE IF Head(s) # Head(t) THEN Ord(Head(s)) < Ord(Head(t))
    ELSE StrLess(Tail(s), Tail(t))

(***************************************************************************)
(* cgi.parse_qs on the stripped cookie.  The cookie text is kept as its    *)
(* sequence of key=value fields (the pieces between the & separators):     *)
(* parse_qs unquotes each value (a + stands for a space), drops a field    *)
(* whose value is blank, and collects the values of each key in order.     *)
(***************************************************************************)
Unquote(s) == [i \in 1..Len(s) |-> IF s[i] = "+" THEN " " ELSE s[i]]

RECURSIVE parse_qs(_)
parse_qs(fields) ==
    IF fields = <<>> THEN [k \in {} |-> <<>>]
    ELSE LET n == Len(fields)
             rest == parse_qs(SubSeq(fields, 1, n - 1))
             f == fields[n]
             v == Unquote(f.v)
         IN  IF v = <<>> THEN rest
             ELSE IF f.k \in DOMAIN rest
                  THEN [rest EXCEPT ![f.k] = Append(@, v)]
                  ELSE [k \in DOMAIN rest \cup {f.k} |->
                           IF k = f.k THEN <<v>> ELSE rest[k]]

\* dict((k, v[-1]) for k, v in cgi.parse_qs(...).items())
LastValues(qs) == [k \in DOMAIN qs |-> qs[k][Len(qs[k])]]

ParseCookie(cookie) == LastValues(parse_qs(cookie.fields))

SigKey == <<"s", "i", "g">>
ExpiresKey == <<"e", "x", "p", "i", "r", "e", "s">>

\* sorted(keys): the least key first
RECURSIVE sorted(_)
sorted(keys) ==
    IF keys = {} THEN <<>>
    ELSE LET least == CHOOSE k \in keys : \A o \in keys \ {k} : StrLess(k, o)
         IN  <<least>> \o sorted(keys \ {least})

\* JoinPairs with the sig pair left in the string
RECURSIVE JoinPairsWithSig(_, _)
JoinPairsWithSig(ks, args) ==
    IF ks = <<>> THEN <<>>
    ELSE Head(ks) \o <<"=">> \o args[Head(ks)] \o JoinPairsWithSig(Tail(ks), args)

RECURSIVE JoinPairs(_, _)
JoinPairs(ks, args) ==
    IF ks = <<>> THEN <<>>
    ELSE IF Head(ks) # SigKey
         THEN Head(ks) \o <<"=">> \o args[Head(ks)] \o JoinPairs(Tail(ks), args)
         ELSE JoinPairs(Tail(ks), args)

\* "".join(k + "=" + args[k] for k in sorted(args.keys()) if k != "sig")
Payload(args) == JoinPairs(sorted(DOMAIN args), args)

(***************************************************************************)
(* hashlib.md5(...).hexdigest(): a fixed function from the bytes hashed to *)
(* a digest written in lowercase hexadecimal.  The model keeps that and    *)
(* shortens the digest to two digits.  The str arguments are hashed as     *)
(* they are, which is what Python 2 does (cgi.parse_qs is Python 2 too).   *)
(***************************************************************************)
HexDigits ==
    <<"0", "1", "2", "3", "4", "5", "6", "7", "8", "9", "a", "b", "c", "d", "e", "f">>

RECURSIVE Mix(_, _)
Mix(h, s) ==
    IF s = <<>> THEN h
    ELSE Mix((h * 31 + Ord(Head(s)) + 7) % 256, Tail(s))

md5_hexdigest(s) ==
    LET h == Mix(0, s)
    IN  <<HexDigits[(h \div 16) + 1], HexDigits[(h % 16) + 1]>>

(***************************************************************************)
(* int(s) on a str: surrounding spaces are dropped, then an optional sign  *)
(* and at least one decimal digit; anything else is a ValueError.          *)
(***************************************************************************)
Digits == <<"0", "1", "2", "3", "4", "5", "6", "7", "8", "9">>
IsDigit(c) == \E i \in 1..Len(Digits) : Digits[i] = c
DigitValue(c) == (CHOOSE i \in 1..Len(Digits) : Digits[i] = c) - 1

RECURSIVE StripSpaces(_)
StripSpaces(s) ==
    IF s = <<>> THEN s
    ELSE IF Head(s) = " " THEN StripSpaces(Tail(s))
    ELSE IF s[Len(s)] = " " THEN StripSpaces(SubSeq(s, 1, Len(s) - 1))
    ELSE s

RECURSIVE DecimalValue(_)
DecimalValue(s) ==
    IF s = <<>> THEN 0
    ELSE 10 * DecimalValue(SubSeq(s, 1, Len(s) - 1)) + DigitValue(s[Len(s)])

int(s) ==
    LET t == StripSpaces(s)
        signed == t # <<>> /\ Head(t) \in {"+", "-"}
        d == IF signed THEN Tail(t) ELSE t
    IN  IF d = <<>> \/ \E i \in 1..Len(d) : ~IsDigit(d[i])
        THEN [ok |-> FALSE, n |-> 0]
        ELSE [ok |-> TRUE,
              n |-> IF signed /\ Head(t) = "-" THEN 0 - DecimalValue(d)
                    ELSE DecimalValue(d)]

(***************************************************************************)
(* get_user_from_cookie                                                    *)
(***************************************************************************)
Returned(v) == [kind |-> "return", value |-> v]
ReturnedNone == [kind |-> "none"]
Raised(e) == [kind |-> "raise", exc |-> e]

\* CookieAccepted with the expiry compared by <= : a cookie is still taken at
\* the second it expires
CookieAcceptedAtExpiry(sig, args, expires, now) ==
    /\ SigKey \in DOMAIN args
    /\ sig = args[SigKey]
    /\ (expires = 0 \/ now <= expires)

\* CookieAccepted with a cookie that carries no sig taken as signed
CookieAcceptedUnsigned(sig, args, expires, now) ==
    /\ SigKey \in DOMAIN args => sig = args[SigKey]
    /\ (expires = 0 \/ now < expires)

\* sig == args.get("sig") and (expires == 0 or time.time() < expires)
CookieAccepted(sig, args, expires, now) ==
    /\ SigKey \in DOMAIN args
    /\ sig = args[SigKey]
    /\ (expires = 0 \/ now < expires)

\* cookies: the cookie names present, each with its value; a cookie value is
\* [quoted, fields]: the fields of its text and whether the text is quoted
get_user_from_cookie(cookies, app_id, app_secret, now) ==
    LET name == <<"fbs_", app_id>>
    IN  IF name \notin DOMAIN cookies
           \/ (~cookies[name].quoted /\ cookies[name].fields = <<>>)
        THEN ReturnedNone
        ELSE LET args == ParseCookie(cookies[name])
                 payload == Payload(args)
                 sig == md5_hexdigest(payload \o app_secret)
             IN  IF ExpiresKey \notin DOMAIN args THEN Raised("KeyError")
                 ELSE LET expires == int(args[ExpiresKey])
                      IN  IF ~expires.ok THEN Raised("ValueError")
                          ELSE IF CookieAccepted(sig, args, expires.n, now)
                               THEN Returned(args)
                               ELSE ReturnedNone

(***************************************************************************)
(* JSON values as response.json() decodes them.  The members of an object  *)
(* are a function from its keys; JNull is Python's None.                   *)
(***************************************************************************)
JNull == [j |-> "null"]
JTrue == [j |-> "true"]
JStr(s) == [j |-> "string", s |-> s]
JObj(o) == [j |-> "object", o |-> o]
JArr(a) == [j |-> "array", a |-> a]

IsDict(v) == v.j = "object"

\* d.get(key) on a decoded object
Get(d, key) == IF key \in DOMAIN d.o THEN d.o[key] ELSE JNull

\* Python's truth value of a decoded value
Truthy(v) ==
    CASE v.j = "null" -> FALSE
      [] v.j = "true" -> TRUE
      [] v.j = "string" -> v.s # ""
      [] v.j = "object" -> DOMAIN v.o # {}
      [] v.j = "array" -> v.a # <<>>

\* truth value of an optional str (the access token, a method, an id)
StrTruthy(x) == ~x.none /\ x.v # ""

\* truth value of an optional dict
DictTruthy(x) == ~x.none /\ DOMAIN x.v # {}

(***************************************************************************)
(* GraphAPIError(type, message)                                            *)
(***************************************************************************)
GraphAPIError(type, message) ==
    [kind |-> "raise", exc |-> "GraphAPIError", type |-> type, message |-> message]

(***************************************************************************)
(* GraphAPI.request.  resp is what the session's request call does: it     *)
(* raises (t = "ConnectionError" or "HTTPError") or returns a response     *)
(* (t = "response") with a status and a body; body.j = "invalid" is a body *)
(* that is not JSON.                                                       *)
(***************************************************************************)

\* RequestMethod with an explicit method winning over the POST body
RequestMethodExplicitFirst(post_args, method) ==
    IF StrTruthy(method) THEN method.v
    ELSE IF ~post_args.none THEN "POST" ELSE "GET"

\* if post_args is not None: method = 'POST'   ...   method or 'GET'
RequestMethod(post_args, method) ==
    LET m == IF ~post_args.none THEN Some("POST") ELSE method
    IN  IF StrTruthy(m) THEN m.v ELSE "GET"

\* if post_args and 'access_token' not in post_args
TokenIntoPost(post_args) ==
    DictTruthy(post_args) /\ "access_token" \notin DOMAIN post_args.v

\* the query parameters and the POST body after the token is injected
InjectToken(tok, args, post_args) ==
    LET args0 == IF DictTruthy(args) THEN args.v ELSE EmptyDict
    IN  IF ~StrTruthy(tok) THEN [args |-> args0, post_args |-> post_args]
        ELSE IF TokenIntoPost(post_args)
             THEN [args |-> args0,
                   post_args |-> Some(post_args.v @@ ("access_token" :> tok))]
             ELSE IF "access_token" \notin DOMAIN args0
                  THEN [args |-> args0 @@ ("access_token" :> tok),
                        post_args |-> post_args]
                  ELSE [args |-> args0, post_args |-> post_args]

\* SessionExchanges with the request sent again after a transport error
SessionExchangesRetrying(req, resp) ==
    LET x == [via |-> "session", method |-> req.method, path |-> req.path,
              params |-> req.params, data |-> req.data, resp |-> resp]
    IN  IF resp.t = "response" THEN <<x>> ELSE <<x, x>>

\* the HTTP exchanges of one call of request: the try block calls
\* self.session.request once
SessionExchanges(req, resp) ==
    <<[via |-> "session", method |-> req.method, path |-> req.path,
       params |-> req.params, data |-> req.data, resp |-> resp]>>

\* DecodeResult with type and message of the error exchanged
DecodeResultSwapped(body) ==
    IF body.j = "invalid" THEN Raised("ValueError")
    ELSE IF ~IsDict(body) THEN Raised("AttributeError")
    ELSE LET error_response == Get(body, "error")
         IN  IF Truthy(error_response)
             THEN IF ~IsDict(error_response) THEN Raised("AttributeError")
                  ELSE GraphAPIError(Get(error_response, "message"),
                                     Get(error_response, "type"))
             ELSE Returned(body)

\* result = response.json() and what follows it
DecodeResult(body) ==
    IF body.j = "invalid" THEN Raised("ValueError")
    ELSE IF ~IsDict(body) THEN Raised("AttributeError")
    ELSE LET error_response == Get(body, "error")
         IN  IF Truthy(error_response)
             THEN IF ~IsDict(error_response) THEN Raised("AttributeError")
                  ELSE GraphAPIError(Get(error_response, "type"),
                                     Get(error_response, "message"))
             ELSE Returned(body)

\* the outcome of request for what the session did
RequestOutcome(resp) ==
    CASE resp.t = "ConnectionError" -> Raised("ConnectionError")
      [] resp.t = "HTTPError" -> Raised("AttributeError")
      [] resp.t = "response" -> DecodeResult(resp.body)

\* request(path, args, post_args, method): the exchanges made, the outcome,
\* and post_args as the call leaves it (the caller's dict is updated in place)
request(tok, path, args, post_args, method, resp) ==
    LET inj == InjectToken(tok, args, post_args)
        req == [method |-> RequestMethod(post_args, method), path |-> path,
                params |-> Some(inj.args), data |-> inj.post_args]
    IN  [net |-> SessionExchanges(req, resp),
         out |-> RequestOutcome(resp),
         post_args |-> inj.post_args]

(***************************************************************************)
(* The public operations of GraphAPI.  Each gives the exchanges it made    *)
(* (net) and its outcome (out).  A path is the sequence of its segments.   *)
(***************************************************************************)
Done(net, out) == [net |-> net, out |-> out]

get_object(tok, id, args, resp) ==
    LET r == request(tok, <<id>>, Some(args), None, None, resp)
    IN  Done(r.net, r.out)

\* args["ids"] = ",".join(ids)
RECURSIVE JoinIds(_)
JoinIds(ids) ==
    IF ids = <<>> THEN <<>>
    ELSE IF Len(ids) = 1 THEN <<ids[1]>>
    ELSE <<ids[1], ",">> \o JoinIds(Tail(ids))

get_objects(tok, ids, args, resp) ==
    LET args1 == [k \in DOMAIN args \cup {"ids"} |->
                     IF k = "ids" THEN Some(JoinIds(ids)) ELSE args[k]]
        r == request(tok, <<"">>, Some(args1), None, None, resp)
    IN  Done(r.net, r.out)

get_connections(tok, id, connection_name, args, resp) ==
    LET r == request(tok, <<id, connection_name>>, Some(args), None, None, resp)
    IN  Done(r.net, r.out)

\* assert self.access_token, "Write operations require an access token"
put_object(tok, parent_object, connection_name, data, resp) ==
    IF ~StrTruthy(tok) THEN Done(<<>>, Raised("AssertionError"))
    ELSE LET r == request(tok, <<parent_object, connection_name>>, None,
                          Some(data), Some("POST"), resp)
         IN  Done(r.net, r.out)

put_wall_post(tok, message, attachment, profile_id, resp) ==
    put_object(tok, profile_id, "feed",
               attachment @@ ("message" :> Some(message)), resp)

put_comment(tok, object_id, message, resp) ==
    put_object(tok, object_id, "comments", ("message" :> Some(message)), resp)

put_like(tok, object_id, resp) ==
    put_object(tok, object_id, "likes", EmptyDict, resp)

delete_object(tok, id, resp) ==
    LET r == request(tok, <<id>>, None, None, Some("DELETE"), resp)
    IN  Done(r.net, r.out)

(***************************************************************************)
(* get_page_access_token and put_event call requests.get and requests.post *)
(* themselves, not the session.  A value returned by these two is a pair.  *)
(***************************************************************************)
Pair(a, b) == [first |-> a, second |-> b]

DirectExchange(method, path, params, data, resp) ==
    <<[via |-> "requests", method |-> method, path |-> path,
       params |-> params, data |-> data, resp |-> resp]>>

\* '%s' of a decoded value, for a value put into a URL
Format(v) == IF v.j = "string" THEN v.s ELSE v.j

\* a decoded str or None as a value of a form field
FieldValue(v) == IF v.j = "string" THEN Some(v.s) ELSE None

\* json_response.get('error').get('message')
ErrorMessage(body) ==
    IF body.j = "invalid" THEN Raised("ValueError")
    ELSE IF ~IsDict(body) \/ ~IsDict(Get(body, "error"))
         THEN Raised("AttributeError")
         ELSE Returned(Get(Get(body, "error"), "message"))

\* for account in accounts: if account['id'] == page_id: ...
RECURSIVE PageToken(_, _, _)
PageToken(accounts, page_id, found) ==
    IF accounts = <<>> THEN found
    ELSE PageToken(Tail(accounts), page_id,
                   IF Head(accounts).o["id"] = JStr(page_id)
                   THEN Head(accounts).o["access_token"] ELSE found)

get_page_access_token(tok, page_id, fb_uid, resp) ==
    LET net == DirectExchange("GET", <<fb_uid, "accounts">>,
                              Some("access_token" :> tok), None, resp)
    IN  IF resp.t # "response" THEN Done(net, Raised("ConnectionError"))
        ELSE IF resp.body.j = "invalid" THEN Done(net, Raised("ValueError"))
        ELSE IF resp.status # 200
             THEN LET m == ErrorMessage(resp.body)
                  IN  IF m.kind = "raise" THEN Done(net, m)
                      ELSE Done(net, Returned(Pair(JNull, m.value)))
        ELSE IF ~IsDict(resp.body) THEN Done(net, Raised("AttributeError"))
        ELSE LET accounts == Get(resp.body, "data")
             IN  IF accounts.j # "array" THEN Done(net, Raised("TypeError"))
                 ELSE Done(net, Returned(Pair(
                          PageToken(accounts.a, page_id, JNull), JNull)))

\* the picture upload of put_event, from "post_args = {}" on
UploadPicture(tok, response, picture, page_access_token, resp) ==
    LET post_args == ("cover_url" :> picture) @@
                     ("access_token" :> IF Truthy(page_access_token)
                                        THEN FieldValue(page_access_token)
                                        ELSE tok)
        net == DirectExchange("POST", <<Format(response.o["id"]), "">>,
                              None, Some(post_args), resp)
    IN  IF resp.t # "response" THEN Done(net, Raised("ConnectionError"))
        ELSE IF resp.status # 200
             THEN LET m == ErrorMessage(resp.body)
                  IN  IF m.kind = "raise" THEN Done(net, m)
                      ELSE Done(net, Returned(Pair(response, m.value)))
        ELSE Done(net, Returned(Pair(response, JNull)))

EventPath(id, page_id) ==
    IF StrTruthy(id) THEN <<id.v>>
    ELSE IF StrTruthy(page_id) THEN <<page_id.v, "events">>
    ELSE <<"me", "events">>

\* put_event with the picture uploaded whatever the page token lookup reports
put_eventUploadAnyway(tok, id, page_id, fb_uid, data, resp, page_resp, upload_resp) ==
    LET r == request(tok, EventPath(id, page_id), None, Some(data),
                     Some("POST"), resp)
        response == r.out.value
    IN  IF r.out.kind # "return" THEN Done(r.net, r.out)
        ELSE IF ~("picture" \in DOMAIN data /\ IsDict(response)
                  /\ "id" \in DOMAIN response.o)
             THEN Done(r.net, Returned(Pair(response, JNull)))
        ELSE IF StrTruthy(page_id) /\ StrTruthy(fb_uid)
             THEN LET g == get_page_access_token(tok, page_id.v, fb_uid.v, page_resp)
                  IN  IF g.out.kind = "raise" THEN Done(r.net \o g.net, g.out)
                      ELSE LET u == UploadPicture(tok, response, data["picture"],
                                                  g.out.value.first, upload_resp)
                           IN  Done(r.net \o g.net \o u.net, u.out)
             ELSE LET u == UploadPicture(tok, response, data["picture"],
                                         JNull, upload_resp)
                  IN  Done(r.net \o u.net, u.out)

\* resp, page_resp, upload_resp: the answers to the creation request, to the
\* page token lookup and to the picture upload, for the requests that are made
put_event(tok, id, page_id, fb_uid, data, resp, page_resp, upload_resp) ==
    LET r == request(tok, EventPath(id, page_id), None, Some(data),
                     Some("POST"), resp)
        response == r.out.value
    IN  IF r.out.kind # "return" THEN Done(r.net, r.out)
        ELSE IF ~("picture" \in DOMAIN data /\ IsDict(response)
                  /\ "id" \in DOMAIN response.o)
             THEN Done(r.net, Returned(Pair(response, JNull)))
        ELSE IF StrTruthy(page_id) /\ StrTruthy(fb_uid)
             THEN LET g == get_page_access_token(tok, page_id.v, fb_uid.v, page_resp)
                  IN  IF g.out.kind = "raise" THEN Done(r.net \o g.net, g.out)
                      ELSE IF Truthy(g.out.value.second)
                           THEN Done(r.net \o g.net,
                                     Returned(Pair(response, g.out.value.second)))
                           ELSE LET u == UploadPicture(tok, response, data["picture"],
                                                       g.out.value.first, upload_resp)
                                IN  Done(r.net \o g.net \o u.net, u.out)
             ELSE LET u == UploadPicture(tok, response, data["picture"],
                                         JNull, upload_resp)
                  IN  Done(r.net \o u.net, u.out)

(***************************************************************************)
(* The inputs the model draws: arguments of the calls and answers of the   *)
(* remote service.                                                         *)
(***************************************************************************)
Tokens == {None, Some(""), Some("tok")}

ErrorObject == JObj(("type" :> JStr("OAuthException")) @@ ("message" :> JStr("bad")))

Bodies ==
    { JObj("error" :> ErrorObject),
      JObj(("error" :> ErrorObject) @@ ("id" :> JStr("7"))),
      JObj("error" :> JObj("message" :> JStr("bad"))),
      JObj("error" :> JObj(EmptyDict)),
      JObj("error" :> JNull),
      JObj("error" :> JStr("bad")),
      JObj("id" :> JStr("7")),
      JObj("name" :> JStr("n")),
      JObj(EmptyDict),
      JArr(<<JObj("id" :> JStr("7"))>>),
      JArr(<<>>),
      JTrue,
      JStr("ok"),
      [j |-> "invalid"] }

Statuses == {200, 400}

SessionResults ==
    {[t |-> "ConnectionError"], [t |-> "HTTPError"]}
    \cup {[t |-> "response", status |-> s, body |-> b] : s \in Statuses, b \in Bodies}

\* answers to the page token lookup
PageResults ==
    { [t |-> "ConnectionError"],
      [t |-> "response", status |-> 200, body |->
          JObj("data" :> JArr(<<JObj(("id" :> JStr("p1")) @@
                                     ("access_token" :> JStr("ptok")))>>))],
      [t |-> "response", status |-> 200, body |-> JObj("data" :> JArr(<<>>))],
      [t |-> "response", status |-> 200, body |-> JObj(EmptyDict)],
      [t |-> "response", status |-> 400, body |-> JObj("error" :> ErrorObject)],
      [t |-> "response", status |-> 400, body |-> JObj("error" :> JObj(EmptyDict))],
      [t |-> "response", status |-> 400, body |-> JObj(EmptyDict)],
      [t |-> "response", status |-> 500, body |-> [j |-> "invalid"]] }

\* answers to the picture upload
UploadResults ==
    { [t |-> "ConnectionError"],
      [t |-> "response", status |-> 200, body |-> JObj("success" :> JTrue)],
      [t |-> "response", status |-> 200, body |-> [j |-> "invalid"]],
      [t |-> "response", status |-> 400, body |-> JObj("error" :> ErrorObject)],
      [t |-> "response", status |-> 400, body |-> JObj("error" :> JObj(EmptyDict))],
      [t |-> "response", status |-> 500, body |-> JObj(EmptyDict)],
      [t |-> "response", status |-> 500, body |-> JArr(<<>>)],
      [t |-> "response", status |-> 500, body |-> [j |-> "invalid"]] }

\* the answer recorded for a request that is not made
Unasked == [t |-> "unasked"]

Ids == {"me", "7"}

\* keyword arguments of the read operations
ArgDicts ==
    { EmptyDict, ("fields" :> Some("name")), ("access_token" :> Some("other")) }

\* keyword arguments of the write operations
PostDicts ==
    { EmptyDict, ("message" :> Some("hi")),
      ("message" :> Some("hi")) @@ ("access_token" :> Some("other")) }

Attachments == { EmptyDict, ("link" :> Some("http://l")) }

EventData ==
    { EmptyDict, ("name" :> Some("party")),
      ("name" :> Some("party")) @@ ("picture" :> Some("http://p")),
      ("picture" :> Some("http://p")) @@ ("access_token" :> Some("other")) }

Methods == {None, Some(""), Some("GET"), Some("POST"), Some("DELETE")}

OptIds == {None, Some("7")}
OptPages == {None, Some("p1")}
OptUids == {None, Some("u1")}

(***************************************************************************)
(* Cookies.  The fields besides sig are drawn from CookieFields; the sig   *)
(* fields are drawn from the digest the browser SDK computes for them and  *)
(* from that digest with one character altered.                            *)
(***************************************************************************)
Field(k, v) == [k |-> k, v |-> v]

CookieFields ==
    { Field(<<"a">>, <<"1">>), Field(<<"a">>, <<"+">>), Field(<<"b">>, <<"2">>),
      Field(ExpiresKey, <<"0">>), Field(ExpiresKey, <<"2">>),
      Field(ExpiresKey, <<"x">>) }

FieldSeqs == UNION {[1..n -> CookieFields] : n \in 0..MaxFields}

Secrets == {<<"s">>}
AppIds == {"A", "B"}
Times == 0..MaxTime

\* the character of the digest at position i replaced by the next hex digit
AlterAt(d, i) ==
    LET p == CHOOSE n \in 1..Len(HexDigits) : HexDigits[n] = d[i]
    IN  [d EXCEPT ![i] = HexDigits[(p % Len(HexDigits)) + 1]]

\* the sig fields tried for a cookie whose other fields are body
SigFields(body, secret) ==
    LET good == md5_hexdigest(Payload(ParseCookie([fields |-> body])) \o secret)
        G == Field(SigKey, good)
    IN  { <<>>, <<G>>, <<Field(SigKey, <<>>)>> }
        \cup { <<Field(SigKey, AlterAt(good, i))>> : i \in 1..Len(good) }
        \cup { <<G, Field(SigKey, AlterAt(good, 1))>>,
               <<Field(SigKey, AlterAt(good, 1)), G>> }

(***************************************************************************)
(* The state after construction, and one action for each public operation. *)
(***************************************************************************)
\* no call is under way: the caller has the result of the last one
Idle == [kind |-> "idle"]

Init ==
    /\ access_token \in Tokens
    /\ call = [op |-> "__init__"]
    /\ netlog = <<>>
    /\ outcome = Idle

\* the call c ran to its end, with the exchanges and the outcome of d
Finish(c, d) ==
    /\ call' = c
    /\ netlog' = d.net
    /\ outcome' = d.out
    /\ UNCHANGED access_token

\* the caller takes the result
Return ==
    /\ outcome # Idle
    /\ outcome' = Idle
    /\ call' = [op |-> "idle"]
    /\ netlog' = <<>>
    /\ UNCHANGED access_token

GetUserFromCookie ==
    /\ outcome = Idle
    /\ \E body \in FieldSeqs, secret \in Secrets, app_id \in AppIds,
          quoted \in BOOLEAN, front \in BOOLEAN, now \in Times :
         \E sigs \in SigFields(body, secret) :
           LET cookie == [quoted |-> quoted,
                          fields |-> IF front THEN sigs \o body ELSE body \o sigs]
               cookies == (<<"fbs_", "A">> :> cookie)
           IN  Finish([op |-> "get_user_from_cookie", cookies |-> cookies,
                       app_id |-> app_id, app_secret |-> secret, now |-> now],
                      Done(<<>>, get_user_from_cookie(cookies, app_id, secret, now)))

Request ==
    /\ outcome = Idle
    /\ \E path \in Ids, args \in {None} \cup {Some(a) : a \in ArgDicts},
          post_args \in {None} \cup {Some(a) : a \in PostDicts},
          method \in Methods, resp \in SessionResults :
           LET r == request(access_token, <<path>>, args, post_args, method, resp)
           IN  Finish([op |-> "request", path |-> path, args |-> args,
                       post_args |-> post_args, method |-> method],
                      Done(r.net, r.out))

GetObject ==
    /\ outcome = Idle
    /\ \E id \in Ids, args \in ArgDicts, resp \in SessionResults :
           Finish([op |-> "get_object", id |-> id, args |-> args],
                  get_object(access_token, id, args, resp))

GetObjects ==
    /\ outcome = Idle
    /\ \E ids \in {<<"7">>, <<"7", "8">>}, args \in ArgDicts, resp \in SessionResults :
           Finish([op |-> "get_objects", ids |-> ids, args |-> args],
                  get_objects(access_token, ids, args, resp))

GetConnections ==
    /\ outcome = Idle
    /\ \E id \in Ids, args \in ArgDicts, resp \in SessionResults :
           Finish([op |-> "get_connections", id |-> id,
                   connection_name |-> "friends", args |-> args],
                  get_connections(access_token, id, "friends", args, resp))

PutObject ==
    /\ outcome = Idle
    /\ \E id \in Ids, data \in PostDicts, resp \in SessionResults :
           Finish([op |-> "put_object", parent_object |-> id,
                   connection_name |-> "feed", data |-> data],
                  put_object(access_token, id, "feed", data, resp))

PutWallPost ==
    /\ outcome = Idle
    /\ \E id \in Ids, attachment \in Attachments, resp \in SessionResults :
           Finish([op |-> "put_wall_post", message |-> "hi",
                   attachment |-> attachment, profile_id |-> id],
                  put_wall_post(access_token, "hi", attachment, id, resp))

PutComment ==
    /\ outcome = Idle
    /\ \E id \in Ids, resp \in SessionResults :
           Finish([op |-> "put_comment", object_id |-> id, message |-> "hi"],
                  put_comment(access_token, id, "hi", resp))

PutLike ==
    /\ outcome = Idle
    /\ \E id \in Ids, resp \in SessionResults :
           Finish([op |-> "put_like", object_id |-> id],
                  put_like(access_token, id, resp))

DeleteObject ==
    /\ outcome = Idle
    /\ \E id \in Ids, resp \in SessionResults :
           Finish([op |-> "delete_object", id |-> id],
                  delete_object(access_token, id, resp))

\* the answers are drawn for the requests the call makes, in order
PutEvent ==
    /\ outcome = Idle
    /\ \E id \in OptIds, page_id \in OptPages, fb_uid \in OptUids,
          data \in EventData, resp \in SessionResults,
          page_resp \in PageResults \cup {Unasked},
          upload_resp \in UploadResults \cup {Unasked} :
           LET d == put_event(access_token, id, page_id, fb_uid, data, resp,
                              page_resp, upload_resp)
               asked == {d.net[i].resp : i \in 1..Len(d.net)}
           IN  /\ \A a \in {page_resp, upload_resp} : a = Unasked \/ a \in asked
               /\ Unasked \notin asked
               /\ Finish([op |-> "put_event", id |-> id, page_id |-> page_id,
                          fb_uid |-> fb_uid, data |-> data],
                         d)

Next ==
    \/ Request
    \/ GetObject
    \/ GetObjects
    \/ GetConnections
    \/ PutObject
    \/ PutWallPost
    \/ PutComment
    \/ PutLike
    \/ DeleteObject
    \/ PutEvent
    \/ Return

Spec == Init /\ [][Next]_vars

(***************************************************************************)
(* get_user_from_cookie is a function of its arguments and the clock: it   *)
(* is checked on its own, with no client.                                  *)
(***************************************************************************)
InitCookie ==
    /\ access_token = None
    /\ call = [op |-> "__init__"]
    /\ netlog = <<>>
    /\ outcome = Idle

NextCookie ==
    \/ GetUserFromCookie
    \/ Return

SpecCookie == InitCookie /\ [][NextCookie]_vars

(***************************************************************************)
(* Properties of get_user_from_cookie, checked under SpecCookie.           *)
(***************************************************************************)
CookieCall ==
    /\ call.op = "get_user_from_cookie"
    /\ <<"fbs_", call.app_id>> \in DOMAIN call.cookies

TheCookie == call.cookies[<<"fbs_", call.app_id>>]
TheArgs == ParseCookie(TheCookie)

\* the digest the verifier recomputes for the cookie of the call
TheDigest == md5_hexdigest(Payload(TheArgs) \o call.app_secret)

SigMatches == SigKey \in DOMAIN TheArgs /\ TheArgs[SigKey] = TheDigest

HasIntExpires == ExpiresKey \in DOMAIN TheArgs /\ int(TheArgs[ExpiresKey]).ok
TheExpires == int(TheArgs[ExpiresKey]).n

\* C1: a cookie whose sig equals the recomputed digest is returned exactly
\* when its expires is 0 or the current time is strictly less than expires;
\* with a non-zero expires that is not after the current time the result is
\* None (and a cookie with no integer expires is never returned).
C1_ValidIffUnexpired ==
    (CookieCall /\ SigMatches) =>
        IF HasIntExpires
        THEN IF TheExpires = 0 \/ call.now < TheExpires
             THEN outcome = Returned(TheArgs)
             ELSE outcome = ReturnedNone
        ELSE outcome.kind = "raise"

\* C1: a correctly signed cookie with expires 0 is returned at a time > 0
C1_Witness ==
    /\ CookieCall /\ SigMatches /\ HasIntExpires
    /\ TheArgs[ExpiresKey] = <<"0">>
    /\ call.now = MaxTime
    /\ outcome = Returned(TheArgs)

\* C2: with an integer expires, a cookie whose sig differs from the
\* recomputed digest, or that has no sig, gives None whatever expires and
\* the current time are; a payload is returned only with a matching sig.
C2_FailsClosed ==
    CookieCall =>
        /\ (HasIntExpires /\ ~SigMatches) => outcome = ReturnedNone
        /\ outcome.kind = "return" => SigMatches

\* C2: a cookie whose sig has one character altered, with expires 0, was
\* refused
C2_Witness ==
    /\ CookieCall
    /\ SigKey \in DOMAIN TheArgs
    /\ \E i \in 1..Len(TheDigest) : TheArgs[SigKey] = AlterAt(TheDigest, i)
    /\ HasIntExpires
    /\ TheArgs[ExpiresKey] = <<"0">>
    /\ outcome = ReturnedNone

\* the keys of args besides sig, the least first, by counting for each key
\* the keys below it
SignedKeys(args) == DOMAIN args \ {SigKey}
KeyAt(args, i) ==
    CHOOSE k \in SignedKeys(args) :
        Cardinality({o \in SignedKeys(args) : StrLess(o, k)}) = i - 1

RECURSIVE ConcatUpTo(_, _)
ConcatUpTo(args, n) ==
    IF n = 0 THEN <<>>
    ELSE ConcatUpTo(args, n - 1) \o KeyAt(args, n) \o <<"=">> \o args[KeyAt(args, n)]

\* the last value the cookie gives for key k, unquoted
LastGiven(fields, k) ==
    LET at == {i \in 1..Len(fields) : fields[i].k = k /\ fields[i].v # <<>>}
        last == CHOOSE i \in at : \A o \in at : o <= i
    IN  Unquote(fields[last].v)

\* C9: the canonical signing string is key=value for every parsed key but
\* sig, in lexicographic order of the keys, with nothing between the pairs,
\* each key with the last value the cookie gives for it; the keys b=2, a=1,
\* sig=X give "a=1b=2".
C9_CanonicalString ==
    CookieCall =>
        /\ Payload(TheArgs) = ConcatUpTo(TheArgs, Cardinality(SignedKeys(TheArgs)))
        /\ \A k \in DOMAIN TheArgs : TheArgs[k] = LastGiven(TheCookie.fields, k)
        /\ (DOMAIN TheArgs = {<<"a">>, <<"b">>, SigKey}
            /\ TheArgs[<<"a">>] = <<"1">> /\ TheArgs[<<"b">>] = <<"2">>)
               => Payload(TheArgs) = <<"a", "=", "1", "b", "=", "2">>

\* C9: the cookie b=2&a=+&a=1&sig=... was verified
C9_Witness ==
    /\ CookieCall
    /\ Len(TheCookie.fields) = 4
    /\ TheCookie.fields[1] = Field(<<"b">>, <<"2">>)
    /\ TheCookie.fields[2] = Field(<<"a">>, <<"+">>)
    /\ TheCookie.fields[3] = Field(<<"a">>, <<"1">>)
    /\ TheCookie.fields[4].k = SigKey
    /\ SigKey \in DOMAIN TheArgs
    /\ Payload(TheArgs) = <<"a", "=", "1", "b", "=", "2">>

(***************************************************************************)
(* Properties of the Graph API client, checked under Spec.                 *)
(***************************************************************************)
WriteOps == {"put_object", "put_wall_post", "put_comment", "put_like", "put_event"}

\* the operations that hand back what request returns
RequestOps ==
    {"request", "get_object", "get_objects", "get_connections", "put_object",
     "put_wall_post", "put_comment", "put_like", "delete_object"}

SessionCount == Cardinality({i \in 1..Len(netlog) : netlog[i].via = "session"})

\* the call made an exchange through the session (it is the first one)
Sent == netlog # <<>> /\ netlog[1].via = "session"
Answered == Sent /\ netlog[1].resp.t = "response"
TheBody == netlog[1].resp.body

\* C3: every write operation of a client constructed with no access token
\* fails with the caller-input error and issues no network request.
C3_WriteNeedsToken ==
    (call.op \in WriteOps /\ access_token = None) =>
        (outcome = Raised("AssertionError") /\ netlog = <<>>)

\* the decoded body is an object with an error object {type, message}
HasErrorObject(body) ==
    /\ body.j = "object"
    /\ "error" \in DOMAIN body.o
    /\ body.o["error"].j = "object"
    /\ {"type", "message"} \subseteq DOMAIN body.o["error"].o

\* C4: when the decoded body is an object with an error object
\* {type: T, message: M}, the call raises GraphAPIError with type T and
\* message M and does not return the body.
C4_ErrorBodyRaises ==
    (Answered /\ HasErrorObject(TheBody)) =>
        /\ outcome.kind = "raise"
        /\ outcome.exc = "GraphAPIError"
        /\ outcome.type = TheBody.o["error"].o["type"]
        /\ outcome.message = TheBody.o["error"].o["message"]

\* C4: request got {"error": {type, message}, "id": ...} and raised
C4_Witness ==
    /\ call.op = "request"
    /\ Answered /\ HasErrorObject(TheBody)
    /\ "id" \in DOMAIN TheBody.o
    /\ outcome = GraphAPIError(JStr("OAuthException"), JStr("bad"))

\* the body decodes (it is JSON) and has no error key
NoErrorKey(body) ==
    /\ body.j # "invalid"
    /\ body.j = "object" => "error" \notin DOMAIN body.o

\* C5: a decoded 2xx body with no error key is returned unchanged, whether
\* it is an object, an array or a scalar.
C5_PlainBodyReturned ==
    (call.op \in RequestOps /\ Answered /\ netlog[1].resp.status = 200
     /\ NoErrorKey(TheBody)) =>
        outcome = Returned(TheBody)

\* the picture upload of the put_event call, when it was made and answered
UploadAt == Len(netlog)
Uploaded ==
    /\ call.op = "put_event"
    /\ Len(netlog) > 1
    /\ netlog[UploadAt].via = "requests"
    /\ netlog[UploadAt].method = "POST"
    /\ netlog[UploadAt].resp.t = "response"

\* C6: when the creation succeeded and the picture upload is answered with
\* a failure, put_event does not raise and returns the created object with
\* the error message, whatever the failing answer is; with no failure of
\* the secondary steps it returns (created object, None).
C6_UploadFailureReturned ==
    /\ (Uploaded /\ netlog[UploadAt].resp.status # 200) =>
           (outcome.kind = "return" /\ outcome.value.first = TheBody)
    /\ (Uploaded /\ netlog[UploadAt].resp.status = 200) =>
           outcome = Returned(Pair(TheBody, JNull))

\* C7: a call of request makes exactly one HTTP request through the
\* session, whether it returns, raises GraphAPIError or meets a transport
\* error.  (Every operation but put_object and its callers without a token
\* reaches request, once.)
C7_OneRequest ==
    (call.op \in RequestOps \cup {"put_event"}) =>
        IF outcome = Raised("AssertionError") THEN SessionCount = 0
        ELSE SessionCount = 1

\* C7: request met a transport error and had sent one request
C7_Witness ==
    /\ call.op = "request"
    /\ outcome = Raised("ConnectionError")
    /\ SessionCount = 1 /\ Len(netlog) = 1

\* the access_token the caller of request put into a dict, if any
CallerTokenIn(d) == ~d.none /\ "access_token" \in DOMAIN d.v
TokenIn(d) == ~d.none /\ "access_token" \in DOMAIN d.v /\ d.v["access_token"] = access_token

\* an access_token supplied by the caller of request is sent as supplied
CallerTokensKept ==
    /\ CallerTokenIn(call.args) =>
           netlog[1].params.v["access_token"] = call.args.v["access_token"]
    /\ CallerTokenIn(call.post_args) =>
           netlog[1].data.v["access_token"] = call.post_args.v["access_token"]

\* C8: with a token, a POST body supplied without access_token gets the
\* token (and the query parameters do not); with no POST body the query
\* parameters get it unless they have one; a caller's access_token is never
\* overwritten.
C8_TokenPlacement ==
    (call.op = "request" /\ Sent /\ StrTruthy(access_token)) =>
        /\ (~call.post_args.none /\ ~CallerTokenIn(call.post_args)) =>
               /\ TokenIn(netlog[1].data)
               /\ ~CallerTokenIn(call.args) => ~CallerTokenIn(netlog[1].params)
        /\ (call.post_args.none /\ ~CallerTokenIn(call.args)) =>
               TokenIn(netlog[1].params)
        /\ CallerTokensKept

\* C10: request sends GET when it is given neither a POST body nor a
\* method, POST when it is given a POST body, and the given method when it
\* is given one and no POST body; delete_object sends DELETE, and
\* get_object, get_objects and get_connections send GET.
C10_Method ==
    Sent =>
        /\ call.op = "request" =>
               /\ (call.post_args.none /\ call.method.none) => netlog[1].method = "GET"
               /\ ~call.post_args.none => netlog[1].method = "POST"
               /\ (call.post_args.none /\ StrTruthy(call.method)) =>
                      netlog[1].method = call.method.v
        /\ call.op = "delete_object" => netlog[1].method = "DELETE"
        /\ call.op \in {"get_object", "get_objects", "get_connections"} =>
               netlog[1].method = "GET"

\* C10: request was given a POST body and the method DELETE, and sent POST
C10_Witness ==
    /\ call.op = "request" /\ Sent
    /\ ~call.post_args.none
    /\ call.method = Some("DELETE")
    /\ netlog[1].method = "POST"

(***************************************************************************)
(* The order of the requests of one put_event call.                        *)
(***************************************************************************)
\* the places in netlog of the page token lookups and of the picture uploads
LookupsAt ==
    {i \in 1..Len(netlog) : netlog[i].via = "requests" /\ netlog[i].method = "GET"}
UploadsAt ==
    {i \in 1..Len(netlog) : netlog[i].via = "requests" /\ netlog[i].method = "POST"}

\* the creation request comes first, then at most one lookup, then at most
\* one upload; a lookup needs page_id and fb_uid; an upload needs a created
\* object with an id and a picture in the data; nothing follows a creation
\* request that raised
RequestsInOrder ==
    /\ netlog # <<>>
    /\ netlog[1].via = "session" /\ netlog[1].method = "POST"
    /\ \A i \in 2..Len(netlog) : netlog[i].via = "requests"
    /\ Cardinality(LookupsAt) <= 1 /\ Cardinality(UploadsAt) <= 1
    /\ \A l \in LookupsAt : l = 2
    /\ \A u \in UploadsAt : u = Len(netlog) /\ \A l \in LookupsAt : l < u
    /\ LookupsAt # {} => StrTruthy(call.page_id) /\ StrTruthy(call.fb_uid)
    /\ (UploadsAt # {} /\ StrTruthy(call.page_id) /\ StrTruthy(call.fb_uid))
           => LookupsAt # {}
    /\ Len(netlog) > 1 =>
           /\ Answered /\ TheBody.j = "object" /\ "id" \in DOMAIN TheBody.o
           /\ ~Truthy(Get(TheBody, "error"))
           /\ "picture" \in DOMAIN call.data

\* the answer to a lookup is an error answer: its status is not 200
LookupFailed(i) ==
    netlog[i].resp.t # "response" \/ netlog[i].resp.status # 200

\* the answer to a lookup carries an error message that is not empty
LookupGaveMessage(i) ==
    /\ netlog[i].resp.t = "response"
    /\ netlog[i].resp.status # 200
    /\ netlog[i].resp.body.j = "object"
    /\ Get(netlog[i].resp.body, "error").j = "object"
    /\ Truthy(Get(Get(netlog[i].resp.body, "error"), "message"))

====
